---- MODULE Spec2Model ----
(***************************************************************************)
(* A model of AiInvestmentHelper.py: the module-level start-up script, the *)
(* keyword classifier classify_question_type, the prompt selection of      *)
(* generate_advice and the Gradio turn handler chatbot.                    *)
(*                                                                         *)
(* Python strings are modelled as sequences of one-character strings, so   *)
(* that lower(), strip() and the substring test `k in text` are computed   *)
(* character by character as the interpreter computes them.  None is the   *)
(* model value NoneVal.                                                    *)
(***************************************************************************)
EXTENDS Integers, Sequences, FiniteSets, TLC

(***************************************************************************)
(* Bounds of the model.                                                    *)
(***************************************************************************)
\* an input of the classifier is a concatenation of at most MaxFrags fragments
MaxFrags == 2
\* number of turns submitted to the handler in one run
MaxTurns == 3

\* None and an unbound name where a string is expected: one-element sequences
\* that no character sequence equals
NoneVal == <<"None">>
Unbound == <<"Unbound">>

(***************************************************************************)
(* str.lower(), str.strip() and the `in` operator on strings.              *)
(***************************************************************************)
UpperAlpha == <<"A","B","C","D","E","F","G","H","I","J","K","L","M","N","O","P","Q","R","S","T","U","V","W","X","Y","Z">>
LowerAlpha == <<"a","b","c","d","e","f","g","h","i","j","k","l","m","n","o","p","q","r","s","t","u","v","w","x","y","z">>

LowerChar(c) ==
    IF \E i \in 1..Len(UpperAlpha) : UpperAlpha[i] = c
    THEN LowerAlpha[CHOOSE i \in 1..Len(UpperAlpha) : UpperAlpha[i] = c]
    ELSE c

UpperChar(c) ==
    IF \E i \in 1..Len(LowerAlpha) : LowerAlpha[i] = c
    THEN UpperAlpha[CHOOSE i \in 1..Len(LowerAlpha) : LowerAlpha[i] = c]
    ELSE c

\* str.lower()
Lower(s) == [i \in 1..Len(s) |-> LowerChar(s[i])]

\* str.upper() and str.swapcase(): used to build inputs that differ only in case
Upper(s) == [i \in 1..Len(s) |-> UpperChar(s[i])]
SwapCase(s) == [i \in 1..Len(s) |-> IF LowerChar(s[i]) = s[i] THEN UpperChar(s[i]) ELSE LowerChar(s[i])]

Whitespace == {" ", "\t", "\n"}

RECURSIVE LStrip(_)
LStrip(s) == IF s # <<>> /\ Head(s) \in Whitespace THEN LStrip(Tail(s)) ELSE s

RECURSIVE RStrip(_)
RStrip(s) == IF s # <<>> /\ s[Len(s)] \in Whitespace THEN RStrip(SubSeq(s, 1, Len(s) - 1)) ELSE s

\* str.strip()
Strip(s) == RStrip(LStrip(s))

\* k in text
Contains(text, k) ==
    \E i \in 0..(Len(text) - Len(k)) : SubSeq(text, i + 1, i + Len(k)) = k

\* any(k in text for k in keywords)
AnyIn(text, keywords) == \E j \in 1..Len(keywords) : Contains(text, keywords[j])

(***************************************************************************)
(* 4) Classify question type                                               *)
(***************************************************************************)
Categories == {"Knowledge", "Advice", "Personalized", "Mixed"}

KnowledgeKeywords == <<
    <<"w","h","a","t"," ","i","s">>,
    <<"d","e","f","i","n","e">>,
    <<"d","e","f","i","n","i","t","i","o","n">>,
    <<"d","i","f","f","e","r","e","n","c","e">>,
    <<"c","o","m","p","a","r","e">>,
    <<"v","s">>,
    <<"v","e","r","s","u","s">> >>

AdviceKeywords == <<
    <<"h","o","w"," ","t","o"," ","i","n","v","e","s","t">>,
    <<"w","h","a","t"," ","s","h","o","u","l","d"," ","i"," ","b","u","y">>,
    <<"r","e","c","o","m","m","e","n","d">>,
    <<"s","u","g","g","e","s","t">>,
    <<"i"," ","w","a","n","t"," ","t","o"," ","i","n","v","e","s","t">> >>

PersonalizedKeywords == <<
    <<"i","s"," ","i","t"," ","s","u","i","t","a","b","l","e"," ","f","o","r"," ","m","e">>,
    <<"f","o","r"," ","m","y"," ","s","i","t","u","a","t","i","o","n">>,
    <<"i"," ","h","a","v","e">>,
    <<"m","y"," ","c","u","r","r","e","n","t">>,
    <<"i"," ","a","m">>,
    <<"i"," ","w","a","n","t">> >>

\* faulty variant: the fall-through return is missing, the function returns None
classify_no_fallback(user_input) ==
    LET text == Lower(user_input) IN
    IF AnyIn(text, KnowledgeKeywords) THEN "Knowledge"
    ELSE IF AnyIn(text, AdviceKeywords) THEN "Advice"
    ELSE IF AnyIn(text, PersonalizedKeywords) THEN "Personalized"
    ELSE "None"

\* faulty variant: the Personalized test is made before the Advice test
classify_personalized_first(user_input) ==
    LET text == Lower(user_input) IN
    IF AnyIn(text, KnowledgeKeywords) THEN "Knowledge"
    ELSE IF AnyIn(text, PersonalizedKeywords) THEN "Personalized"
    ELSE IF AnyIn(text, AdviceKeywords) THEN "Advice"
    ELSE "Mixed"

\* faulty variant: the input is matched without being lower-cased
classify_case_sensitive(user_input) ==
    LET text == user_input IN
    IF AnyIn(text, KnowledgeKeywords) THEN "Knowledge"
    ELSE IF AnyIn(text, AdviceKeywords) THEN "Advice"
    ELSE IF AnyIn(text, PersonalizedKeywords) THEN "Personalized"
    ELSE "Mixed"

classify_question_type(user_input) ==
    LET text == Lower(user_input) IN
    IF AnyIn(text, KnowledgeKeywords) THEN "Knowledge"
    ELSE IF AnyIn(text, AdviceKeywords) THEN "Advice"
    ELSE IF AnyIn(text, PersonalizedKeywords) THEN "Personalized"
    ELSE "Mixed"

(***************************************************************************)
(* Inputs of the classifier: every concatenation of at most MaxFrags of    *)
(* the fragments below.  The fragments hold triggers of each group, parts  *)
(* that form a trigger only when joined ("i want" + " to invest",          *)
(* "for " + "my situation", "V" + "s"), mixed-case spellings and filler.   *)
(***************************************************************************)
Fragments == {
    <<"w","h","a","t"," ","i","s">>,
    <<"W","h","a","t"," ","I","s">>,
    <<"V">>,
    <<"s">>,
    <<"r","e","c","o","m","m","e","n","d">>,
    <<"h","o","w"," ","t","o"," ","i","n","v","e","s","t">>,
    <<"i"," ","w","a","n","t">>,
    <<" ","t","o"," ","i","n","v","e","s","t">>,
    <<"i"," ","h","a","v","e">>,
    <<"m","y"," ","s","i","t","u","a","t","i","o","n">>,
    <<"f","o","r"," ">>,
    <<"b","o","n","d">> }

RECURSIVE Join(_)
Join(parts) == IF parts = <<>> THEN <<>> ELSE Head(parts) \o Join(Tail(parts))

Inputs == { Join(p) : p \in UNION { [1..n -> Fragments] : n \in 0..MaxFrags } }

\* the spellings of s that differ from it only in letter case
CaseVariants(s) == { Upper(s), Lower(s), SwapCase(s) }

VARIABLES
    c_pc,        \* "input": the classifier has not run; "done": it has returned
    c_input,     \* user_input of classify_question_type
    c_variant,   \* a second input, differing from c_input only in letter case
    c_result,    \* the value returned for c_input
    c_vresult,   \* the value returned for c_variant
    s_pc,        \* position of the module-level script
    environ,     \* os.environ["GROQ_API_KEY"], NoneVal when the variable is not set
    dotenv_file, \* GROQ_API_KEY of the .env file, NoneVal when there is none
    dotenv_ok,   \* python-dotenv imports and load_dotenv() does not raise
    api_key,     \* the module global api_key, Unbound before line 16
    client,      \* the module global client
    demo,        \* the gr.Blocks object: "unset", "built", "launched"
    pc,          \* position of the turn handler: "idle", "reasons_call", "advice_call"
    raw,         \* the textbox value the handler was called with
    user_input,  \* chatbot's local user_input after line 156
    chat_history, \* the transcript: value of the gr.Chatbot component
    reasons,     \* chatbot's local reasons
    qtype,       \* chatbot's local qtype
    advice,      \* chatbot's local advice
    calls,       \* the model calls made so far by the current turn, in order
    replies,     \* the message contents those calls have returned, in order
    outcome,     \* how the last call of chatbot ended: "none", "returned", "raised"
    failed_fn,   \* the function whose model call failed in the current turn, or "none"
    exc,         \* the exception that ended the current turn, or "none"
    turn_start,  \* the transcript when the current turn entered chatbot
    prompt_of,   \* per category, the system prompt generate_advice has sent for it
    turns        \* number of turns submitted so far

cvars == <<c_pc, c_input, c_variant, c_result, c_vresult>>
svars == <<s_pc, environ, dotenv_file, dotenv_ok, api_key, client, demo>>
tvars == <<pc, raw, user_input, chat_history, reasons, qtype, advice, calls, replies,
           outcome, failed_fn, exc, turn_start, prompt_of, turns>>

vars == <<cvars, svars, tvars>>

(***************************************************************************)
(* 0) and 1): the module-level script up to demo.launch.                   *)
(***************************************************************************)
KeyValues == { NoneVal, <<>>, <<"g","s","k","1">>, <<"g","s","k","2">> }

\* `not api_key` for a value of os.getenv
Falsy(v) == v = NoneVal \/ v = <<>>

StartupInit ==
    /\ s_pc = "load_dotenv"
    /\ environ \in KeyValues
    /\ dotenv_file \in KeyValues
    /\ dotenv_ok \in BOOLEAN
    /\ api_key = Unbound
    /\ client = "unset"
    /\ demo = "unset"

\* lines 10-14: load_dotenv() sets a variable of .env only when the process
\* environment does not hold it; a failing import or load is swallowed
LoadDotenv ==
    /\ s_pc = "load_dotenv"
    /\ environ' = IF dotenv_ok /\ environ = NoneVal THEN dotenv_file ELSE environ
    /\ s_pc' = "getenv"
    /\ UNCHANGED <<dotenv_file, dotenv_ok, api_key, client, demo>>

\* line 16
GetEnv ==
    /\ s_pc = "getenv"
    /\ api_key' = environ
    /\ s_pc' = "check"
    /\ UNCHANGED <<environ, dotenv_file, dotenv_ok, client, demo>>

\* faulty variant: the test is `api_key is None`, an empty key passes
CheckKey_none_only ==
    /\ s_pc = "check"
    /\ s_pc' = IF api_key = NoneVal THEN "crashed" ELSE "set_environ"
    /\ UNCHANGED <<environ, dotenv_file, dotenv_ok, api_key, client, demo>>

\* lines 17-25: RuntimeError at module level ends the process
CheckKey ==
    /\ s_pc = "check"
    /\ s_pc' = IF Falsy(api_key) THEN "crashed" ELSE "set_environ"
    /\ UNCHANGED <<environ, dotenv_file, dotenv_ok, api_key, client, demo>>

\* line 28
SetEnviron ==
    /\ s_pc = "set_environ"
    /\ environ' = api_key
    /\ s_pc' = "client"
    /\ UNCHANGED <<dotenv_file, dotenv_ok, api_key, client, demo>>

\* line 33
CreateClient ==
    /\ s_pc = "client"
    /\ client' = "created"
    /\ s_pc' = "build_ui"
    /\ UNCHANGED <<environ, dotenv_file, dotenv_ok, api_key, demo>>

\* lines 183-242
BuildUI ==
    /\ s_pc = "build_ui"
    /\ demo' = "built"
    /\ s_pc' = "launch"
    /\ UNCHANGED <<environ, dotenv_file, dotenv_ok, api_key, client>>

\* line 244
Launch ==
    /\ s_pc = "launch"
    /\ demo' = "launched"
    /\ s_pc' = "serving"
    /\ UNCHANGED <<environ, dotenv_file, dotenv_ok, api_key, client>>

\* the state of the script once demo.launch is serving
Serving ==
    /\ s_pc = "serving"
    /\ environ = <<"g","s","k","1">>
    /\ dotenv_file = NoneVal
    /\ dotenv_ok = TRUE
    /\ api_key = <<"g","s","k","1">>
    /\ client = "created"
    /\ demo = "launched"

(***************************************************************************)
(* 3) and 5): the requests of generate_reasons and generate_advice.  A     *)
(* prompt literal is named by its first line.                              *)
(***************************************************************************)
provider == "groq"
planner_model == "gemma2-9b-it"
writer_model == "gemma2-9b-it"

ReasonsPrompt == "Based on the user's question, list five clear and constructive reasons"
KnowledgePrompt == "You are a financial education expert."
PersonalizedPrompt == "You are a financial educator."
DefaultPrompt == "You are a professional investment educator."

\* lines 68-87: the call generate_reasons makes
reasons_request(user_question) ==
    [ fn |-> "generate_reasons",
      args |-> <<user_question>>,
      model |-> <<provider, ":", planner_model>>,
      messages |-> << [role |-> "system", content |-> ReasonsPrompt],
                      [role |-> "user", content |-> user_question] >> ]

\* lines 114-139
system_prompt(question_type) ==
    IF question_type = "Knowledge" THEN KnowledgePrompt
    ELSE IF question_type = "Personalized" THEN PersonalizedPrompt
    ELSE DefaultPrompt

\* lines 141-149: the call generate_advice makes
advice_request(reasons_text, question_type) ==
    [ fn |-> "generate_advice",
      args |-> <<reasons_text, question_type>>,
      model |-> <<provider, ":", writer_model>>,
      messages |-> << [role |-> "system", content |-> system_prompt(question_type)],
                      [role |-> "user", content |-> reasons_text] >> ]

\* lines 164-171: the f-string full_response (the two emoji of the literals
\* are left out: the module is ASCII)
full_response(reasons_text, question_type, advice_text) ==
    <<"<div style='background-color:#f8f9fa;border-radius:10px;padding:12px'>",
      "<b>Investment Reasons</b><br>">>
    \o reasons_text \o <<"<br><br>">>
    \o <<"<b>Recommendation (", question_type, ")</b><br>">>
    \o advice_text
    \o <<"</div>">>

(***************************************************************************)
(* 6) The turn handler.  The model call is the external collaborator: it   *)
(* returns a message content, returns a response without content, or      *)
(* raises.                                                                 *)
(***************************************************************************)
RawQuestions == {
    NoneVal,
    <<>>,
    <<" ","\n">>,
    <<" ","W","h","a","t"," ","i","s"," ","x","?">>,
    <<"r","e","c","o","m","m","e","n","d"," ">>,
    <<"I"," ","h","a","v","e","\n">>,
    <<"b","o","n","d">> }

ReasonsContents == { <<" ","r","1","\n">>, <<"r","2">>, NoneVal }
AdviceContents == { <<"a","1"," ">>, <<"\n","o","k">>, NoneVal }

TurnInit ==
    /\ pc = "idle"
    /\ raw = NoneVal
    /\ user_input = Unbound
    /\ chat_history = <<>>
    /\ reasons = Unbound
    /\ qtype = "Unbound"
    /\ advice = Unbound
    /\ calls = <<>>
    /\ replies = <<>>
    /\ outcome = "none"
    /\ failed_fn = "none"
    /\ exc = "none"
    /\ turn_start = <<>>
    /\ prompt_of = [c \in Categories |-> "unsent"]
    /\ turns = 0

\* lines 155-160: chatbot is entered with the textbox value q; a blank
\* question returns at line 158, any other sends the reasons request
ChatbotEnter(q) ==
    /\ pc = "idle"
    /\ turns < MaxTurns
    /\ turns' = turns + 1
    /\ raw' = q
    /\ turn_start' = chat_history
    /\ failed_fn' = "none"
    /\ exc' = "none"
    /\ replies' = <<>>
    /\ reasons' = Unbound
    /\ qtype' = "Unbound"
    /\ advice' = Unbound
    /\ LET stripped == Strip(IF q = NoneVal THEN <<>> ELSE q) IN
        /\ user_input' = stripped
        /\ IF stripped = <<>>
           THEN /\ pc' = "idle"
                /\ outcome' = "returned"
                /\ calls' = <<>>
           ELSE /\ pc' = "reasons_call"
                /\ outcome' = "none"
                /\ calls' = <<reasons_request(stripped)>>
    /\ UNCHANGED <<chat_history, prompt_of>>

\* an exception leaves chatbot at the line that raised it: chatbot has no
\* try/except, so line 173 is not reached and the transcript component keeps
\* its value.  ProviderError stands for whatever the client raises,
\* AttributeError for the .strip() of a response without content
Propagate(fn, e) ==
    /\ pc' = "idle"
    /\ outcome' = "raised"
    /\ failed_fn' = fn
    /\ exc' = e
    /\ UNCHANGED <<chat_history>>

\* faulty variant: the question, not the reasons, is passed on as the context
ReasonsReturn_question_as_context(content) ==
    /\ pc = "reasons_call"
    /\ IF content = NoneVal
       THEN /\ Propagate("generate_reasons", "AttributeError")
            /\ UNCHANGED <<reasons, qtype, calls, prompt_of>>
       ELSE /\ reasons' = Strip(content)
            /\ qtype' = classify_question_type(user_input)
            /\ calls' = Append(calls, advice_request(user_input, qtype'))
            /\ prompt_of' = [prompt_of EXCEPT ![qtype'] = system_prompt(qtype')]
            /\ pc' = "advice_call"
            /\ UNCHANGED <<outcome, failed_fn, exc, chat_history>>
    /\ replies' = Append(replies, content)
    /\ UNCHANGED <<raw, user_input, advice, turn_start, turns>>

\* lines 88 and 161-162: the reasons call returns; generate_reasons strips the
\* content, the question is classified and the advice request is sent
ReasonsReturn(content) ==
    /\ pc = "reasons_call"
    /\ IF content = NoneVal
       THEN /\ Propagate("generate_reasons", "AttributeError")
            /\ UNCHANGED <<reasons, qtype, calls, prompt_of>>
       ELSE /\ reasons' = Strip(content)
            /\ qtype' = classify_question_type(user_input)
            /\ calls' = Append(calls, advice_request(reasons', qtype'))
            /\ prompt_of' = [prompt_of EXCEPT ![qtype'] = system_prompt(qtype')]
            /\ pc' = "advice_call"
            /\ UNCHANGED <<outcome, failed_fn, exc, chat_history>>
    /\ replies' = Append(replies, content)
    /\ UNCHANGED <<raw, user_input, advice, turn_start, turns>>

\* line 84 raises
ReasonsRaise ==
    /\ pc = "reasons_call"
    /\ Propagate("generate_reasons", "ProviderError")
    /\ UNCHANGED <<raw, user_input, reasons, qtype, advice, calls, replies, turn_start, prompt_of, turns>>

\* faulty variant: the handler replaces the transcript by the new entry
AdviceReturn_overwrite(content) ==
    /\ pc = "advice_call"
    /\ IF content = NoneVal
       THEN /\ Propagate("generate_advice", "AttributeError")
            /\ UNCHANGED <<advice>>
       ELSE /\ advice' = Strip(content)
            /\ chat_history' = << <<user_input, full_response(reasons, qtype, advice')>> >>
            /\ pc' = "idle"
            /\ outcome' = "returned"
            /\ UNCHANGED <<failed_fn, exc>>
    /\ replies' = Append(replies, content)
    /\ UNCHANGED <<raw, user_input, reasons, qtype, calls, turn_start, prompt_of, turns>>

\* lines 150 and 164-174: the advice call returns; generate_advice strips the
\* content and the entry is appended to the transcript
AdviceReturn(content) ==
    /\ pc = "advice_call"
    /\ IF content = NoneVal
       THEN /\ Propagate("generate_advice", "AttributeError")
            /\ UNCHANGED <<advice>>
       ELSE /\ advice' = Strip(content)
            /\ chat_history' = Append(chat_history, <<user_input, full_response(reasons, qtype, advice')>>)
            /\ pc' = "idle"
            /\ outcome' = "returned"
            /\ UNCHANGED <<failed_fn, exc>>
    /\ replies' = Append(replies, content)
    /\ UNCHANGED <<raw, user_input, reasons, qtype, calls, turn_start, prompt_of, turns>>

\* faulty variant: the reasons already obtained are shown when the advice call fails
AdviceRaise_partial ==
    /\ pc = "advice_call"
    /\ pc' = "idle"
    /\ outcome' = "raised"
    /\ failed_fn' = "generate_advice"
    /\ exc' = "ProviderError"
    /\ chat_history' = Append(chat_history, <<user_input, reasons>>)
    /\ UNCHANGED <<raw, user_input, reasons, qtype, advice, calls, replies, turn_start, prompt_of, turns>>

\* line 146 raises
AdviceRaise ==
    /\ pc = "advice_call"
    /\ Propagate("generate_advice", "ProviderError")
    /\ UNCHANGED <<raw, user_input, reasons, qtype, advice, calls, replies, turn_start, prompt_of, turns>>

(***************************************************************************)
(* Specifications.                                                         *)
(***************************************************************************)
\* the classifier applied to every input of Inputs
InitClassify ==
    /\ c_pc = "input"
    /\ c_input \in Inputs
    /\ c_variant \in CaseVariants(c_input)
    /\ c_result = "Unbound"
    /\ c_vresult = "Unbound"
    /\ Serving
    /\ TurnInit

Classify ==
    /\ c_pc = "input"
    /\ c_result' = classify_question_type(c_input)
    /\ c_vresult' = classify_question_type(c_variant)
    /\ c_pc' = "done"
    /\ UNCHANGED <<c_input, c_variant, svars, tvars>>

NextClassify == Classify

SpecClassify == InitClassify /\ [][NextClassify]_vars

ClassifyIdle ==
    /\ c_pc = "input"
    /\ c_input = <<>>
    /\ c_variant = <<>>
    /\ c_result = "Unbound"
    /\ c_vresult = "Unbound"

\* the module-level script, from every environment
InitStartup ==
    /\ StartupInit
    /\ TurnInit
    /\ ClassifyIdle

NextStartup ==
    \/ LoadDotenv /\ UNCHANGED <<cvars, tvars>>
    \/ GetEnv /\ UNCHANGED <<cvars, tvars>>
    \/ CheckKey /\ UNCHANGED <<cvars, tvars>>
    \/ SetEnviron /\ UNCHANGED <<cvars, tvars>>
    \/ CreateClient /\ UNCHANGED <<cvars, tvars>>
    \/ BuildUI /\ UNCHANGED <<cvars, tvars>>
    \/ Launch /\ UNCHANGED <<cvars, tvars>>

SpecStartup == InitStartup /\ [][NextStartup]_vars

\* the served application: turns submitted to chatbot one after the other
Init ==
    /\ Serving
    /\ TurnInit
    /\ ClassifyIdle

Next ==
    \/ \E q \in RawQuestions : ChatbotEnter(q) /\ UNCHANGED <<cvars, svars>>
    \/ \E content \in ReasonsContents : ReasonsReturn(content) /\ UNCHANGED <<cvars, svars>>
    \/ ReasonsRaise /\ UNCHANGED <<cvars, svars>>
    \/ \E content \in AdviceContents : AdviceReturn(content) /\ UNCHANGED <<cvars, svars>>
    \/ AdviceRaise /\ UNCHANGED <<cvars, svars>>

Spec == Init /\ [][Next]_vars

(***************************************************************************)
(* Properties of the classifier, checked under SpecClassify.               *)
(***************************************************************************)
S_what_is == <<"w","h","a","t"," ","i","s">>
S_my_situation == <<"m","y"," ","s","i","t","u","a","t","i","o","n">>
S_i_have == <<"i"," ","h","a","v","e">>

\* the case-folded input holds a trigger of the group
HasKnowledge(t) == \E j \in DOMAIN KnowledgeKeywords : Contains(Lower(t), KnowledgeKeywords[j])
HasAdvice(t) == \E j \in DOMAIN AdviceKeywords : Contains(Lower(t), AdviceKeywords[j])
HasPersonalized(t) == \E j \in DOMAIN PersonalizedKeywords : Contains(Lower(t), PersonalizedKeywords[j])

\* C2: classify_question_type returns one of the four categories for every
\* input, and returns Mixed for the empty string and for every input that
\* holds no trigger of any group.
C2_ClassifyTotal ==
    c_pc = "done" =>
        /\ c_result \in Categories
        /\ c_vresult \in Categories
        /\ c_input = <<>> => c_result = "Mixed"
        /\ (~HasKnowledge(c_input) /\ ~HasAdvice(c_input) /\ ~HasPersonalized(c_input))
              => c_result = "Mixed"

\* a non-empty input without any trigger has been classified Mixed
C2_Witness ==
    /\ c_pc = "done"
    /\ c_input # <<>>
    /\ ~HasKnowledge(c_input) /\ ~HasAdvice(c_input) /\ ~HasPersonalized(c_input)
    /\ c_result = "Mixed"

\* C3: the groups are tried in the order Knowledge, Advice, Personalized: a
\* Knowledge trigger gives Knowledge whatever else occurs, otherwise an Advice
\* trigger gives Advice even with a Personalized trigger, otherwise a
\* Personalized trigger gives Personalized.
C3_PriorityOrder ==
    c_pc = "done" =>
        /\ HasKnowledge(c_input) => c_result = "Knowledge"
        /\ (~HasKnowledge(c_input) /\ HasAdvice(c_input)) => c_result = "Advice"
        /\ (~HasKnowledge(c_input) /\ ~HasAdvice(c_input) /\ HasPersonalized(c_input))
              => c_result = "Personalized"

\* an input with an Advice trigger and a Personalized trigger ("i want to
\* invest" holds "i want") has been classified Advice
C3_Witness ==
    /\ c_pc = "done"
    /\ ~HasKnowledge(c_input)
    /\ HasAdvice(c_input)
    /\ HasPersonalized(c_input)
    /\ c_result = "Advice"

\* C4: every input that holds "my situation" or "i have" and no Knowledge and
\* no Advice trigger is classified Personalized.
C4_MySituationOrIHave ==
    (/\ c_pc = "done"
     /\ Contains(Lower(c_input), S_my_situation) \/ Contains(Lower(c_input), S_i_have)
     /\ ~HasKnowledge(c_input)
     /\ ~HasAdvice(c_input))
        => c_result = "Personalized"

\* C6: an input that holds "what is" in any mix of cases is classified
\* Knowledge, and two inputs that differ only in letter case get the same
\* category.
C6_CaseInsensitive ==
    c_pc = "done" =>
        /\ Contains(Lower(c_input), S_what_is) => c_result = "Knowledge"
        /\ Contains(Lower(c_variant), S_what_is) => c_vresult = "Knowledge"
        /\ Lower(c_variant) = Lower(c_input) => c_vresult = c_result

\* an input that holds "what is" only in another spelling ("What Is") has been
\* classified Knowledge, together with a second spelling of it
C6_Witness ==
    /\ c_pc = "done"
    /\ Contains(Lower(c_input), S_what_is)
    /\ ~Contains(c_input, S_what_is)
    /\ c_variant # c_input
    /\ c_result = "Knowledge"
    /\ c_vresult = "Knowledge"

(***************************************************************************)
(* Properties of the start-up script, checked under SpecStartup.           *)
(***************************************************************************)
\* C7: when os.getenv gives no key or an empty key, the script ends at the
\* check: the client is not created, the UI is not built, demo.launch is
\* not reached.
C7_NoServingWithoutKey ==
    (api_key # Unbound /\ Falsy(api_key)) =>
        /\ s_pc \in {"check", "crashed"}
        /\ client = "unset"
        /\ demo = "unset"

\* the script has ended on an empty key
C7_Witness ==
    /\ s_pc = "crashed"
    /\ api_key = <<>>
    /\ client = "unset"
    /\ demo = "unset"

(***************************************************************************)
(* Properties of the turn handler, checked under Spec.                     *)
(***************************************************************************)
\* the question of the current turn as chatbot trims it
Trimmed == Strip(IF raw = NoneVal THEN <<>> ELSE raw)

TurnEnded == pc = "idle" /\ outcome # "none"

\* C1: a failing model call is caught inside chatbot, which returns with an
\* error message appended to the transcript.
C1_FailureCaughtAndShown ==
    (pc = "idle" /\ failed_fn # "none") =>
        /\ outcome = "returned"
        /\ Len(chat_history) = Len(turn_start) + 1

\* C5: each category has its own template: the system prompts generate_advice
\* has sent for two different categories differ.
C5_TemplatePerCategory ==
    \A c1, c2 \in Categories :
        (c1 # c2 /\ prompt_of[c1] # "unsent" /\ prompt_of[c2] # "unsent")
            => prompt_of[c1] # prompt_of[c2]

\* what C8 says of the calls of a turn, but for their number
CallsInOrder ==
    /\ Trimmed = <<>> => (calls = <<>> /\ pc = "idle")
    /\ Trimmed # <<>> =>
        /\ Len(calls) \in 1..2
        /\ calls[1].fn = "generate_reasons"
        /\ calls[1].args = <<Trimmed>>
        /\ calls[1].messages[2] = [role |-> "user", content |-> Trimmed]
        /\ Len(calls) = 2 =>
            /\ Len(replies) >= 1
            /\ replies[1] # NoneVal
            /\ calls[2].fn = "generate_advice"
            /\ calls[2].args = <<Strip(replies[1]), classify_question_type(Trimmed)>>
            /\ calls[2].messages[2] = [role |-> "user", content |-> Strip(replies[1])]
    /\ chat_history # turn_start =>
        /\ TurnEnded
        /\ Len(calls) = 2
        /\ Len(replies) = 2
        /\ replies[2] # NoneVal

\* C8 as stated: every turn with a non-blank question makes exactly two model
\* calls, the reasons call on the trimmed question and then the advice call on
\* the reasons and the category of that question; the transcript changes only
\* after both returned; a blank question makes no call.
C8_ExactlyTwoCalls ==
    turns > 0 =>
        /\ CallsInOrder
        /\ (TurnEnded /\ Trimmed # <<>>) => Len(calls) = 2

\* C8 amended: at most two calls, in that order; the advice call is made
\* exactly when the reasons call returned a content.
C8_TwoCallsInOrder ==
    turns > 0 =>
        /\ CallsInOrder
        /\ (TurnEnded /\ Trimmed # <<>>) =>
              (Len(calls) = 2 <=> (Len(replies) >= 1 /\ replies[1] # NoneVal))
        /\ (TurnEnded /\ Trimmed # <<>> /\ failed_fn # "generate_reasons") => Len(calls) = 2

\* a turn has returned after its two calls and has appended its entry
C8_Witness ==
    /\ TurnEnded
    /\ outcome = "returned"
    /\ Len(calls) = 2
    /\ calls[2].args = <<Strip(replies[1]), classify_question_type(Trimmed)>>
    /\ Len(chat_history) = Len(turn_start) + 1

\* the entries of h are the first entries of g
IsPrefix(h, g) == Len(h) <= Len(g) /\ SubSeq(g, 1, Len(h)) = h

\* C9: every step keeps the earlier entries in place; the step that ends a
\* turn whose two calls succeeded appends one entry, the trimmed question with
\* a response that holds the reasons, the category and the advice; the step
\* of a blank question appends nothing.
C9_AppendOnly ==
    [][ /\ IsPrefix(chat_history, chat_history')
        /\ (pc = "advice_call" /\ outcome' = "returned") =>
              /\ Len(chat_history') = Len(chat_history) + 1
              /\ LET e == chat_history'[Len(chat_history')] IN
                    /\ e[1] = Trimmed
                    /\ Contains(e[2], Strip(replies'[1]))
                    /\ Contains(e[2], <<classify_question_type(Trimmed)>>)
                    /\ Contains(e[2], Strip(replies'[2]))
        /\ (turns' # turns /\ pc' = "idle") => chat_history' = chat_history
      ]_vars

\* a second entry has been appended behind the first
C9_Witness ==
    /\ TurnEnded
    /\ outcome = "returned"
    /\ Trimmed # <<>>
    /\ turn_start # <<>>
    /\ chat_history = Append(turn_start, chat_history[Len(chat_history)])

\* C10: after a failed reasons call no advice call is made, and a turn in
\* which either call failed ends with the transcript it started with.
C10_NoPartialResult ==
    /\ failed_fn = "generate_reasons" =>
          \A i \in DOMAIN calls : calls[i].fn # "generate_advice"
    /\ failed_fn # "none" =>
          /\ TurnEnded
          /\ chat_history = turn_start

\* the advice call of a turn has failed after the reasons were obtained, and
\* the transcript of the earlier turns is what is left
C10_Witness ==
    /\ failed_fn = "generate_advice"
    /\ reasons # Unbound
    /\ turn_start # <<>>
    /\ chat_history = turn_start

====
